---- MODULE Spec2Model ----
(***************************************************************************)
(* Duplicate-detection / metadata-merge pipeline (processClothingItems,    *)
(* mergeItem) and the retrying classifier gateway (detectClothingItems).   *)
(*                                                                         *)
(* Seven state machines share the module:                                  *)
(*   Spec         concurrent processClothingItems calls against one table  *)
(*   SpecDetect   one detectClothingItems call and its retry loop          *)
(*   SpecAnalyze  one analyzeClothingImage call                            *)
(*   SpecMerge    the metadata mergeItem writes, over all input pairs      *)
(*   SpecHamming  one hammingDistance call                                 *)
(*   SpecHash     one generatePerceptualHash call                          *)
(*   SpecWeather  getCurrentWeather calls against the in-memory cache      *)
(***************************************************************************)
EXTENDS Integers, Sequences, FiniteSets, TLC

VARIABLES db, call, det, ana, mrg, ham, ph, wx

vars == <<db, call, det, ana, mrg, ham, ph, wx>>

(***************************************************************************)
(* Bounds                                                                  *)
(***************************************************************************)
\* longest batch handed to one processClothingItems call
MaxBatch == 2
\* total number of candidates over all calls of a behaviour
MaxCandidates == 3

\* concurrent server-action invocations
Calls == {"c1", "c2"}

UserIds == {"alice", "bob"}

(***************************************************************************)
(* Inputs of processClothingItems                                          *)
(***************************************************************************)
\* u1 and u2 are two uploads of the same picture, u3 is another picture, of
\* which a candidate is a cropped region
ImageContent(url) == IF url \in {"u1", "u2"} THEN "picA" ELSE "picB"

ProcessItemInput ==
  { [imageUrl |-> "u1", boundingBox |-> "none"],
    [imageUrl |-> "u2", boundingBox |-> "none"],
    [imageUrl |-> "u3", boundingBox |-> "box"] }

Batches == UNION { [1..n -> ProcessItemInput] : n \in 0..MaxBatch }

\* the signature is a deterministic function of the picture and the region
generatePerceptualHash(imageUrl, boundingBox) ==
  <<ImageContent(imageUrl), boundingBox>>

\* the id of a failure outcome: ''
EmptyId == 0

(***************************************************************************)
(* Metadata                                                                *)
(***************************************************************************)
ClothingMetadata(c, s, p, sc, vt, es) ==
  [category |-> c, sub_category |-> s, primary_color |-> p,
   secondary_colors |-> sc, vibe_tags |-> vt, estimated_season |-> es]

\* what analyzeClothingImage may answer for an upload: a full description,
\* or one with empty scalar fields
AnalysisResults(imageUrl) ==
  IF imageUrl = "u2"
  THEN { ClothingMetadata("", "", "", <<"red">>, <<"formal">>, "") }
  ELSE { ClothingMetadata("top", "t-shirt", "navy", <<"white">>, <<"casual">>, "summer") }

NoMetadata == ClothingMetadata("", "", "", <<>>, <<>>, "")

Range(s) == { s[k] : k \in 1..Len(s) }

\* every element kept
DeduplicateNothing(a) == a

\* Array.from(new Set(a)) and a.filter((v, i, a) => a.indexOf(v) === i):
\* keep the first occurrence of every value, in order
Deduplicate(a) ==
  LET F[k \in 0..Len(a)] ==
        IF k = 0 THEN <<>>
        ELSE IF \E j \in 1..(k - 1) : a[j] = a[k]
             THEN F[k - 1]
             ELSE Append(F[k - 1], a[k])
  IN F[Len(a)]

\* the left value whatever it is
OrElseLeft(a, b) == a

\* JavaScript a || b on strings
OrElse(a, b) == IF a # "" THEN a ELSE b

mergedMetadata(existingMetadata, newMetadata) ==
  [category         |-> OrElse(newMetadata.category, existingMetadata.category),
   sub_category     |-> OrElse(newMetadata.sub_category, existingMetadata.sub_category),
   primary_color    |-> OrElse(newMetadata.primary_color, existingMetadata.primary_color),
   secondary_colors |-> Deduplicate(existingMetadata.secondary_colors
                                    \o newMetadata.secondary_colors),
   vibe_tags        |-> Deduplicate(existingMetadata.vibe_tags \o newMetadata.vibe_tags),
   estimated_season |-> newMetadata.estimated_season]

(***************************************************************************)
(* The clothing_items table: db[id] is the row with that id                *)
(***************************************************************************)
NoImageUrls == [primary |-> "", variants |-> <<>>]

ClothingItem(userId, imageUrls, hash, metadata) ==
  [user_id |-> userId, image_urls |-> imageUrls,
   perceptual_hash |-> hash, ai_metadata |-> metadata]

\* the query without its user_id filter
MatchingRowsAnyOwner(table, userId, hash) ==
  { id \in 1..Len(table) : table[id].perceptual_hash = hash }

\* .eq('user_id', userId).eq('perceptual_hash', hash)
MatchingRows(table, userId, hash) ==
  { id \in 1..Len(table) :
      table[id].user_id = userId /\ table[id].perceptual_hash = hash }

\* data is always null
SingleNever(rows) == EmptyId

\* .single(): the row when exactly one row matches, otherwise data is null
Single(rows) ==
  IF Cardinality(rows) = 1 THEN CHOOSE id \in rows : TRUE ELSE EmptyId

(***************************************************************************)
(* One processClothingItems call                                           *)
(***************************************************************************)
IdleCall ==
  [pc |-> "idle", userId |-> "", items |-> <<>>, i |-> 0, results |-> <<>>,
   perceptualHash |-> <<>>, exactMatch |-> EmptyId,
   imageUrls |-> NoImageUrls, metadata |-> NoMetadata,
   \* history: candidates whose resolution raised, whether an external call
   \* failed (an exact-match query that fails when no item of the owner has
   \* the signature answers as the query without the failure does, and is
   \* not recorded), the calls that had returned when this one began, the candidate
   \* and the analysis behind each outcome, and the step at
   \* which mergeItem raised for the candidates it raised for
   raised |-> {}, fault |-> FALSE, after |-> {},
   resolved |-> <<>>, analysed |-> <<>>,
   mergeFailed |-> {}]

item(c) == call[c].items[call[c].i]

CandidatesUsed == Len(call["c1"].items) + Len(call["c2"].items)

\* the loop head: the next candidate, or return results
NextItem(r) ==
  [r EXCEPT !.i = r.i + 1,
            !.pc = IF r.i + 1 > Len(r.items) THEN "done" ELSE "hash",
            !.perceptualHash = <<>>, !.exactMatch = EmptyId,
            !.imageUrls = NoImageUrls, !.metadata = NoMetadata]

\* results.unshift(outcome) in place of push
PushFront(r, outcome, analysis) ==
  NextItem([r EXCEPT !.results = <<outcome>> \o r.results,
                     !.resolved = <<r.items[r.i]>> \o r.resolved,
                     !.analysed = <<analysis>> \o r.analysed])

\* results.push(outcome); continue
Push(r, outcome, analysis) ==
  NextItem([r EXCEPT !.results = Append(r.results, outcome),
                     !.resolved = Append(r.resolved, r.items[r.i]),
                     !.analysed = Append(r.analysed, analysis)])

\* no catch block: the exception leaves the loop and the call fails
CatchRethrow(r) ==
  [r EXCEPT !.pc = "done", !.raised = r.raised \cup {r.i}, !.fault = TRUE]

\* the catch block of the loop body
Catch(r) ==
  Push([r EXCEPT !.raised = r.raised \cup {r.i}, !.fault = TRUE,
                 !.mergeFailed =
                    IF r.pc \in {"mergeFetch", "mergeAnalyze", "mergeUpdate"}
                    THEN @ \cup {<<r.i, r.pc>>} ELSE @],
       [id |-> EmptyId, merged |-> FALSE], NoMetadata)

\* calls and owners are interchangeable: c1 names the call that begins first
\* and alice the owner it is made for
FirstCall == "c1"
FirstUser == "alice"

BeginCall(c) ==
  /\ call[c].pc = "idle"
  /\ c # FirstCall => call[FirstCall].pc # "idle"
  /\ \E userId \in (IF c = FirstCall THEN {FirstUser} ELSE UserIds), items \in Batches :
       /\ CandidatesUsed + Len(items) <= MaxCandidates
       /\ call' = [call EXCEPT ![c] =
            NextItem([IdleCall EXCEPT
               !.userId = userId, !.items = items,
               !.after = { d \in Calls : call[d].pc = "done" }])]
  /\ UNCHANGED <<db, det, ana, mrg, ham, ph, wx>>

\* Step 1: await generatePerceptualHash(item.imageUrl, item.boundingBox)
GenerateHash(c) ==
  /\ call[c].pc = "hash"
  /\ \/ call' = [call EXCEPT ![c] =
          [@ EXCEPT !.pc = "lookup",
                    !.perceptualHash =
                       generatePerceptualHash(item(c).imageUrl, item(c).boundingBox)]]
     \/ call' = [call EXCEPT ![c] = Catch(@)]
  /\ UNCHANGED <<db, det, ana, mrg, ham, ph, wx>>

\* Step 2: the exact-match query; its error is not read
ExactMatchLookup(c) ==
  /\ call[c].pc = "lookup"
  /\ \E storageError \in BOOLEAN :
       LET rows == MatchingRows(db, call[c].userId, call[c].perceptualHash)
           exactMatch == IF storageError THEN EmptyId ELSE Single(rows)
       IN call' = [call EXCEPT ![c] =
            [@ EXCEPT !.exactMatch = exactMatch,
                      !.fault = @ \/ (storageError /\ rows # {}),
                      !.pc = IF exactMatch # EmptyId THEN "mergeFetch" ELSE "similar"]]
  /\ UNCHANGED <<db, det, ana, mrg, ham, ph, wx>>

\* the push left out
pushVariantForgotten(imageUrls, newImageUrl) == imageUrls

\* imageUrls.variants.push(newImageUrl)
pushVariant(imageUrls, newImageUrl) ==
  [imageUrls EXCEPT !.variants = Append(@, newImageUrl)]

\* a missing item makes mergeItem return, and the caller push its outcome
MergeFetchReturnsWhenMissing(c) ==
  /\ call[c].pc = "mergeFetch"
  /\ \/ LET existingItem == db[call[c].exactMatch] IN
        call' = [call EXCEPT ![c] =
          [@ EXCEPT !.pc = "mergeAnalyze",
                    !.imageUrls = pushVariant(existingItem.image_urls, item(c).imageUrl),
                    !.metadata = existingItem.ai_metadata]]
     \/ call' = [call EXCEPT ![c] =
          Push(@, [id |-> call[c].exactMatch, merged |-> TRUE,
                   existingItemId |-> call[c].exactMatch, imageAdded |-> TRUE],
               NoMetadata)]
  /\ UNCHANGED <<db, det, ana, mrg, ham, ph, wx>>

\* mergeItem: fetch the existing item, push the new image onto variants
MergeFetch(c) ==
  /\ call[c].pc = "mergeFetch"
  /\ \/ LET existingItem == db[call[c].exactMatch] IN
        call' = [call EXCEPT ![c] =
          [@ EXCEPT !.pc = "mergeAnalyze",
                    !.imageUrls = pushVariant(existingItem.image_urls, item(c).imageUrl),
                    !.metadata = existingItem.ai_metadata]]
     \/ call' = [call EXCEPT ![c] = Catch(@)]
  /\ UNCHANGED <<db, det, ana, mrg, ham, ph, wx>>

\* the new variant is written to the item before the image is analysed
MergeAnalyzeAfterWrite(c) ==
  /\ call[c].pc = "mergeAnalyze"
  /\ db' = [db EXCEPT ![call[c].exactMatch] =
              [@ EXCEPT !.image_urls = call[c].imageUrls]]
  /\ \/ \E newMetadata \in AnalysisResults(item(c).imageUrl) :
          call' = [call EXCEPT ![c] =
            [@ EXCEPT !.pc = "mergeUpdate",
                      !.metadata = mergedMetadata(@, newMetadata),
                      !.analysed = Append(@, newMetadata)]]
     \/ call' = [call EXCEPT ![c] = Catch(@)]
  /\ UNCHANGED <<det, ana, mrg, ham, ph, wx>>

\* mergeItem: analyzeClothingImage(newImageUrl), then combine the metadata
MergeAnalyze(c) ==
  /\ call[c].pc = "mergeAnalyze"
  /\ \/ \E newMetadata \in AnalysisResults(item(c).imageUrl) :
          call' = [call EXCEPT ![c] =
            [@ EXCEPT !.pc = "mergeUpdate",
                      !.metadata = mergedMetadata(@, newMetadata),
                      !.analysed = Append(@, newMetadata)]]
     \/ call' = [call EXCEPT ![c] = Catch(@)]
  /\ UNCHANGED <<db, det, ana, mrg, ham, ph, wx>>

\* the update also sets the primary image to the new one
MergeUpdateReplacesPrimary(c) ==
  /\ call[c].pc = "mergeUpdate"
  /\ \/ /\ db' = [db EXCEPT ![call[c].exactMatch] =
                    [@ EXCEPT !.image_urls =
                                 [call[c].imageUrls EXCEPT
                                    !.primary = item(c).imageUrl],
                              !.ai_metadata = call[c].metadata]]
        /\ call' = [call EXCEPT ![c] =
             LET r == [@ EXCEPT !.analysed = SubSeq(@, 1, Len(@) - 1)] IN
             Push(r, [id |-> call[c].exactMatch, merged |-> TRUE,
                      existingItemId |-> call[c].exactMatch, imageAdded |-> TRUE],
                  call[c].analysed[Len(call[c].analysed)])]
     \/ /\ call' = [call EXCEPT ![c] =
             Catch([@ EXCEPT !.analysed = SubSeq(@, 1, Len(@) - 1)])]
        /\ UNCHANGED db
  /\ UNCHANGED <<det, ana, mrg, ham, ph, wx>>

\* mergeItem: the update, then results.push({id, merged: true, ...})
MergeUpdate(c) ==
  /\ call[c].pc = "mergeUpdate"
  /\ \/ /\ db' = [db EXCEPT ![call[c].exactMatch] =
                    [@ EXCEPT !.image_urls = call[c].imageUrls,
                              !.ai_metadata = call[c].metadata]]
        /\ call' = [call EXCEPT ![c] =
             LET r == [@ EXCEPT !.analysed = SubSeq(@, 1, Len(@) - 1)] IN
             Push(r, [id |-> call[c].exactMatch, merged |-> TRUE,
                      existingItemId |-> call[c].exactMatch, imageAdded |-> TRUE],
                  call[c].analysed[Len(call[c].analysed)])]
     \/ /\ call' = [call EXCEPT ![c] =
             Catch([@ EXCEPT !.analysed = SubSeq(@, 1, Len(@) - 1)])]
        /\ UNCHANGED db
  /\ UNCHANGED <<det, ana, mrg, ham, ph, wx>>

\* Step 3: the similar-items query, whose result is not used
SimilarItemsQuery(c) ==
  /\ call[c].pc = "similar"
  /\ call' = [call EXCEPT ![c] = [@ EXCEPT !.pc = "analyze"]]
  /\ UNCHANGED <<db, det, ana, mrg, ham, ph, wx>>

\* Step 5: analyzeClothingImage(item.imageUrl, item.description)
Analyze(c) ==
  /\ call[c].pc = "analyze"
  /\ \/ \E metadata \in AnalysisResults(item(c).imageUrl) :
          call' = [call EXCEPT ![c] =
            [@ EXCEPT !.pc = "insert", !.metadata = metadata]]
     \/ call' = [call EXCEPT ![c] = Catch(@)]
  /\ UNCHANGED <<db, det, ana, mrg, ham, ph, wx>>

\* the insert, then results.push({id: newItem.id, merged: false})
Insert(c) ==
  /\ call[c].pc = "insert"
  /\ \/ /\ db' = Append(db,
             ClothingItem(call[c].userId,
                          [primary |-> item(c).imageUrl, variants |-> <<>>],
                          call[c].perceptualHash, call[c].metadata))
        /\ call' = [call EXCEPT ![c] =
             Push(@, [id |-> Len(db) + 1, merged |-> FALSE], call[c].metadata)]
     \/ /\ call' = [call EXCEPT ![c] = Catch(@)]
        /\ UNCHANGED db
  /\ UNCHANGED <<det, ana, mrg, ham, ph, wx>>

(***************************************************************************)
(* detectClothingItems: the retry loop of the classifier gateway           *)
(*                                                                         *)
(* An error message is the set of the substrings the code searches for     *)
(* that occur in it.  Every value thrown inside the try block is an Error: *)
(* fetchImageAsBase64 wraps whatever it catches, the SDK rejects with      *)
(* Error subclasses, and a JSON.parse failure is rethrown as a new Error.  *)
(***************************************************************************)
\* one retry too many
maxRetriesOneMore == 3 + 1

maxRetries == 3

\* status: error.status / response.status / statusCode / code, 0 when absent
ThrownError(message, status, errorCode, origin) ==
  [message |-> message, status |-> status, errorCode |-> errorCode,
   origin |-> origin]

\* rejections of model.generateContent
ClassifierErrors ==
  { ThrownError(m, 0, "", "classifier") :
      m \in { {}, {"rate limit"}, {"429"}, {"Too Many Requests"},
              {"RESOURCE_EXHAUSTED"}, {"quota"}, {"API key"}, {"authentication"},
              {"API_KEY_INVALID"}, {"quota", "API key"},
              {"Failed to detect clothing items"} } }
  \cup { ThrownError({}, 429, "", "classifier"),
         ThrownError({}, 400, "", "classifier"),
         ThrownError({}, 0, "RESOURCE_EXHAUSTED", "classifier"),
         ThrownError({"API_KEY_INVALID"}, 429, "", "classifier") }

\* fetchImageAsBase64: 'Failed to fetch image for Gemini: ' + message
FetchErrors ==
  { ThrownError(m \cup {"image"}, 0, "", "fetch") :
      m \in { {}, {"not found"}, {"429"} } }

\* 'Failed to parse Gemini response as JSON: ' + the SyntaxError message,
\* which quotes part of the response text
ParseErrors ==
  { ThrownError(quoted, 0, "", "parse") :
      quoted \in { {}, {"429"}, {"quota"}, {"API key"} } }

\* 'Gemini API response is missing or invalid "items" array'
ItemsMissingError == ThrownError({"invalid"}, 0, "", "items")

toLowerCase(message) ==
  { IF t = "Too Many Requests" THEN "too many requests" ELSE t : t \in message }

includes(message, t) == t \in message

\* every error response with a status is taken for a rate limit
isRateLimitErrorAnyStatus(error) ==
  \/ includes(error.message, "rate limit")
  \/ includes(error.message, "429")
  \/ includes(toLowerCase(error.message), "too many requests")
  \/ includes(error.message, "RESOURCE_EXHAUSTED")
  \/ includes(error.message, "quota")
  \/ error.status >= 400
  \/ error.errorCode = "RESOURCE_EXHAUSTED"

isRateLimitError(error) ==
  \/ includes(error.message, "rate limit")
  \/ includes(error.message, "429")
  \/ includes(toLowerCase(error.message), "too many requests")
  \/ includes(error.message, "RESOURCE_EXHAUSTED")
  \/ includes(error.message, "quota")
  \/ error.status = 429
  \/ error.errorCode = "RESOURCE_EXHAUSTED"

isApiKeyError(error) ==
  \/ includes(error.message, "API key")
  \/ includes(error.message, "authentication")
  \/ includes(error.message, "API_KEY_INVALID")

\* linear in place of exponential backoff
waitTimeLinear(attempt) == (attempt + 1) * 1000

\* const waitTime = Math.pow(2, attempt) * 1000
waitTime(attempt) == (2 ^ attempt) * 1000

\* an error thrown to the caller: the wording chosen, the error whose message
\* is embedded after 'Original error: ', and the attempt count written into
\* the message (0 when the message names none)
SurfacedError(kind, original, attemptCount) ==
  [kind |-> kind, original |-> original, attemptCount |-> attemptCount]

\* the error thrown to the caller by the tail of the catch block
Surfaced(error) ==
  IF isApiKeyError(error) THEN
    SurfacedError("authentication failed", error, 0)
  ELSE IF isRateLimitError(error) THEN
    SurfacedError("rate limit exceeded", error, 0)
  ELSE IF includes(error.message, "image")
          /\ (includes(error.message, "invalid") \/ includes(error.message, "not found")) THEN
    SurfacedError("failed to access image", error, 0)
  ELSE IF includes(error.message, "Failed to detect clothing items") THEN
    SurfacedError("rethrown", error, 0)
  ELSE
    SurfacedError("failed to detect", error, 0)

\* raw items of a parsed response; confidence in tenths; bounding_box is
\* "box" for an object with x, y, width and height, "partial" for an object
\* that lacks some of them, "absent" when the key is missing or null
RawItems ==
  { [description |-> "shirt", category |-> "top", bounding_box |-> "box", confidence |-> 9],
    [description |-> "jeans", category |-> "bottom", bounding_box |-> "box", confidence |-> 5],
    [description |-> "", category |-> "top", bounding_box |-> "box", confidence |-> 9],
    [description |-> "coat", category |-> "", bounding_box |-> "box", confidence |-> 6],
    [description |-> "scarf", category |-> "top", bounding_box |-> "absent", confidence |-> 9],
    [description |-> "dress", category |-> "dress", bounding_box |-> "partial", confidence |-> 9] }

RawResponses == UNION { [1..n -> RawItems] : n \in 0..2 }

\* the filter callback: !item.bounding_box is true of a missing box only
keepItem(it) ==
  IF it.description = "" \/ it.category = "" \/ it.bounding_box = "absent"
  THEN FALSE
  ELSE it.confidence > 5

filteredItems(items) == SelectSeq(items, keepItem)

\* the imageUrl argument: a string, or (from an untyped caller) undefined or
\* a number
ImageUrlInputs ==
  { [typeof |-> "string", text |-> ""],
    [typeof |-> "string", text |-> "   "],
    [typeof |-> "string", text |-> "u1"],
    [typeof |-> "undefined", text |-> ""],
    [typeof |-> "number", text |-> "42"] }

\* !imageUrl
falsy(imageUrl) ==
  imageUrl.typeof = "undefined" \/ (imageUrl.typeof = "string" /\ imageUrl.text = "")

\* trim() keeps every character
trimNothing(s) == s

trim(s) == IF s = "   " THEN "" ELSE s

NoError == ThrownError({}, 0, "", "")

IdleDetect ==
  [pc |-> "idle", keyConfigured |-> FALSE,
   imageUrl |-> [typeof |-> "undefined", text |-> ""],
   attempt |-> 0, lastError |-> NoError,
   waits |-> <<>>, result |-> <<>>,
   thrown |-> SurfacedError("", NoError, 0),
   \* history: loop iterations begun, image fetches and classifier requests
   \* made, for every failed iteration what kind of failure it was, and the
   \* items of the response that was parsed
   attempts |-> 0, fetches |-> 0, requests |-> 0, log |-> <<>>, raw |-> <<>>]

\* what the history keeps of a failed attempt
Failure(error) ==
  [origin |-> error.origin,
   rateIndicator |->
      \/ error.message \cap {"rate limit", "429", "Too Many Requests",
                             "RESOURCE_EXHAUSTED", "quota"} # {}
      \/ error.status = 429
      \/ error.errorCode = "RESOURCE_EXHAUSTED",
   authIndicator |->
      error.message \cap {"API key", "authentication", "API_KEY_INVALID"} # {}]

\* entry checks, then the first iteration of the loop
DetectClothingItems ==
  /\ det.pc = "idle"
  /\ \E keyConfigured \in BOOLEAN, imageUrl \in ImageUrlInputs :
       LET called == [det EXCEPT !.keyConfigured = keyConfigured,
                                 !.imageUrl = imageUrl] IN
       det' = IF ~keyConfigured THEN
                [called EXCEPT !.pc = "thrown",
                               !.thrown = SurfacedError("not configured", NoError, 0)]
              ELSE IF \/ falsy(imageUrl)
                      \/ imageUrl.typeof # "string"
                      \/ trim(imageUrl.text) = "" THEN
                [called EXCEPT !.pc = "thrown",
                               !.thrown = SurfacedError("invalid image URL", NoError, 0)]
              ELSE
                [called EXCEPT !.pc = "attempt", !.attempt = 0, !.attempts = 1]
  /\ UNCHANGED <<db, call, ana, mrg, ham, ph, wx>>

\* the catch block of one iteration
CatchAttempt(d, error) ==
  LET logged == [d EXCEPT !.lastError = error,
                          !.log = Append(d.log, Failure(error))] IN
  IF isRateLimitError(error) /\ d.attempt < maxRetries THEN
    [logged EXCEPT !.pc = "sleep", !.waits = Append(d.waits, waitTime(d.attempt))]
  ELSE
    [logged EXCEPT !.pc = "thrown", !.thrown = Surfaced(error)]

\* the image was fetched and model.generateContent called
Requested(d) == [d EXCEPT !.fetches = @ + 1, !.requests = @ + 1]

\* fetchImageAsBase64 fails: no classifier request is made
AttemptFetchFails ==
  /\ det.pc = "attempt"
  /\ \E error \in FetchErrors :
       det' = CatchAttempt([det EXCEPT !.fetches = @ + 1], error)
  /\ UNCHANGED <<db, call, ana, mrg, ham, ph, wx>>

\* model.generateContent rejects
AttemptClassifierFails ==
  /\ det.pc = "attempt"
  /\ \E error \in ClassifierErrors :
       det' = CatchAttempt(Requested(det), error)
  /\ UNCHANGED <<db, call, ana, mrg, ham, ph, wx>>

\* JSON.parse throws; the SyntaxError message quotes part of the text, and
\* the rethrown Error embeds that message
AttemptParseFails ==
  /\ det.pc = "attempt"
  /\ \E error \in ParseErrors :
       det' = CatchAttempt(Requested(det), error)
  /\ UNCHANGED <<db, call, ana, mrg, ham, ph, wx>>

\* parsed.items is missing or not an array
AttemptItemsMissing ==
  /\ det.pc = "attempt"
  /\ det' = CatchAttempt(Requested(det), ItemsMissingError)
  /\ UNCHANGED <<db, call, ana, mrg, ham, ph, wx>>

\* the response parses: return filteredItems
AttemptReturns ==
  /\ det.pc = "attempt"
  /\ \E items \in RawResponses :
       det' = [Requested(det) EXCEPT !.pc = "returned", !.raw = items,
                                     !.result = filteredItems(items)]
  /\ UNCHANGED <<db, call, ana, mrg, ham, ph, wx>>

\* the statements after the loop
AfterLoop(lastError) ==
  IF \/ includes(lastError.message, "rate limit")
     \/ includes(lastError.message, "429")
     \/ includes(lastError.message, "RESOURCE_EXHAUSTED")
  THEN SurfacedError("rate limit exceeded", lastError, maxRetries + 1)
  ELSE SurfacedError("last error", lastError, 0)

\* sleep(waitTime) resolves; continue: attempt++ and the loop test
Retry ==
  /\ det.pc = "sleep"
  /\ det' = IF det.attempt + 1 <= maxRetries THEN
              [det EXCEPT !.pc = "attempt", !.attempt = det.attempt + 1,
                          !.attempts = det.attempts + 1]
            ELSE
              \* after the loop: throw the last error
              [det EXCEPT !.pc = "thrown", !.attempt = det.attempt + 1,
                          !.thrown = AfterLoop(det.lastError)]
  /\ UNCHANGED <<db, call, ana, mrg, ham, ph, wx>>

(***************************************************************************)
(* analyzeClothingImage: one call                                          *)
(***************************************************************************)
UploadUrls == {"u1", "u2", "u3"}

\* the optional itemDescription argument, "" when it is left out
ItemDescriptions == {"", "shirt"}

IdleAnalysis ==
  [pc |-> "idle", imageUrl |-> "", itemDescription |-> "",
   result |-> NoMetadata, thrown |-> SurfacedError("", NoError, 0),
   \* history: classifier requests begun and the sleeps between them
   attempts |-> 0, waits |-> <<>>]

\* the call enters its try block and asks for the model
AnalyzeClothingImage ==
  /\ ana.pc = "idle"
  /\ \E imageUrl \in UploadUrls, itemDescription \in ItemDescriptions :
       ana' = [ana EXCEPT !.pc = "request", !.imageUrl = imageUrl,
                          !.itemDescription = itemDescription,
                          !.attempts = 1]
  /\ UNCHANGED <<db, call, det, mrg, ham, ph, wx>>

\* the catch block: 'Failed to analyze clothing image: ' + message, thrown
\* to the caller at once
AnalysisError(a, error) ==
  [a EXCEPT !.pc = "thrown",
            !.thrown = SurfacedError("failed to analyze", error, 0)]

\* fetchImageAsBase64 fails
AnalysisFetchFails ==
  /\ ana.pc = "request"
  /\ \E error \in FetchErrors : ana' = AnalysisError(ana, error)
  /\ UNCHANGED <<db, call, det, mrg, ham, ph, wx>>

\* model.generateContent rejects
AnalysisClassifierFails ==
  /\ ana.pc = "request"
  /\ \E error \in ClassifierErrors : ana' = AnalysisError(ana, error)
  /\ UNCHANGED <<db, call, det, mrg, ham, ph, wx>>

\* JSON.parse throws on the response text
AnalysisParseFails ==
  /\ ana.pc = "request"
  /\ \E error \in ParseErrors : ana' = AnalysisError(ana, error)
  /\ UNCHANGED <<db, call, det, mrg, ham, ph, wx>>

\* the parsed response is returned as it is
AnalysisReturns ==
  /\ ana.pc = "request"
  /\ \E metadata \in AnalysisResults(ana.imageUrl) :
       ana' = [ana EXCEPT !.pc = "returned", !.result = metadata]
  /\ UNCHANGED <<db, call, det, mrg, ham, ph, wx>>

(***************************************************************************)
(* mergeItem: the metadata written for one merge                           *)
(***************************************************************************)
ScalarValues == {"", "top", "dress"}

\* arrays as stored or as the classifier answers them, repeats included
ListValues == { <<>>, <<"a", "a">>, <<"b", "a">> }

SeasonValues == {"", "summer", "winter"}

MetadataInputs ==
  { ClothingMetadata(c, s, p, l, l, es) :
      c \in ScalarValues, s \in ScalarValues, p \in ScalarValues,
      l \in ListValues, es \in SeasonValues }

IdleMerge ==
  [pc |-> "idle", existingMetadata |-> NoMetadata, newMetadata |-> NoMetadata,
   ai_metadata |-> NoMetadata]

\* the existing item is read: existingItem.ai_metadata || {}
MergeItemFetch ==
  /\ mrg.pc = "idle"
  /\ \E existingMetadata \in MetadataInputs :
       mrg' = [mrg EXCEPT !.pc = "fetched", !.existingMetadata = existingMetadata]
  /\ UNCHANGED <<db, call, det, ana, ham, ph, wx>>

\* the new image is analysed and the merged metadata handed to update
MergeItemUpdate ==
  /\ mrg.pc = "fetched"
  /\ \E newMetadata \in MetadataInputs :
       mrg' = [mrg EXCEPT !.pc = "merged", !.newMetadata = newMetadata,
                          !.ai_metadata =
                            mergedMetadata(mrg.existingMetadata, newMetadata)]
  /\ UNCHANGED <<db, call, det, ana, ham, ph, wx>>

(***************************************************************************)
(* hammingDistance: one call.  A hash is the sequence of its characters.   *)
(***************************************************************************)
HashLen == 3

HashChars == {"0", "1"}

Hashes == UNION { [1..n -> HashChars] : n \in 0..HashLen }

\* hash[i], undefined past the end of the string
charAt(hash, i) == IF i <= Len(hash) THEN hash[i] ELSE "undefined"

\* the loop starts at the second character
countDifferencesFromSecond(hash1, hash2) ==
  LET distance[i \in 1..Len(hash1)] ==
        IF i = 1 THEN 0
        ELSE distance[i - 1]
               + (IF charAt(hash1, i) # charAt(hash2, i) THEN 1 ELSE 0)
  IN IF hash1 = <<>> THEN 0 ELSE distance[Len(hash1)]

\* the for loop over the positions of hash1
countDifferences(hash1, hash2) ==
  LET distance[i \in 0..Len(hash1)] ==
        IF i = 0 THEN 0
        ELSE distance[i - 1]
               + (IF charAt(hash1, i) # charAt(hash2, i) THEN 1 ELSE 0)
  IN distance[Len(hash1)]

\* only a longer first hash is refused
lengthMismatchWhenLonger(hash1, hash2) == Len(hash1) > Len(hash2)

\* hash1.length !== hash2.length
lengthMismatch(hash1, hash2) == Len(hash1) # Len(hash2)

\* distance is <<>> until a value is returned
IdleHamming == [pc |-> "idle", hash1 |-> <<>>, hash2 |-> <<>>, distance |-> <<>>]

hammingDistance ==
  /\ ham.pc = "idle"
  /\ \E hash1 \in Hashes, hash2 \in Hashes :
       LET called == [ham EXCEPT !.hash1 = hash1, !.hash2 = hash2] IN
       ham' = IF lengthMismatch(hash1, hash2)
              THEN [called EXCEPT !.pc = "thrown"]
              ELSE [called EXCEPT !.pc = "returned",
                                  !.distance = <<countDifferences(hash1, hash2)>>]
  /\ UNCHANGED <<db, call, det, ana, mrg, ph, wx>>

(***************************************************************************)
(* generatePerceptualHash: one call.  Percentages and pixel counts are     *)
(* integers; the products are computed exactly.                            *)
(***************************************************************************)
\* resize(8, 8): the grid is GridSize by GridSize samples
GridSize == 8

BoundingBox(x, y, width, height) ==
  [present |-> TRUE, x |-> x, y |-> y, width |-> width, height |-> height]

\* the boundingBox argument left out
NoBoundingBox == [present |-> FALSE, x |-> 0, y |-> 0, width |-> 0, height |-> 0]

BoundingBoxes ==
  { BoundingBox(x, y, width, height) :
      x \in {-10, 50, 120}, y \in {-10, 50, 120},
      width \in {0, 50, 150}, height \in {0, 50, 150} }
  \cup {NoBoundingBox}

\* metadata.width and metadata.height as sharp reports them; 0 also stands
\* for a dimension sharp leaves undefined
DeclaredDimensions == {0, 1, 3, 100}

Max(a, b) == IF a >= b THEN a ELSE b

Min(a, b) == IF a <= b THEN a ELSE b

\* Math.round((percentage / 100) * dimension): the nearest integer, halves
\* rounded up
roundPercentage(percentage, dimension) ==
  (2 * percentage * dimension + 100) \div 200

\* declared || 1
orOne(declared) == IF declared = 0 THEN 1 ELSE declared

NoExtract == [present |-> FALSE, left |-> 0, top |-> 0, width |-> 0, height |-> 0]

\* the width and height are limited by the image size, not by what is left
\* of it beside safeLeft and safeTop
extractRegionFromOrigin(boundingBox, imageWidth, imageHeight) ==
  LET left == roundPercentage(boundingBox.x, imageWidth)
      top == roundPercentage(boundingBox.y, imageHeight)
      width == roundPercentage(boundingBox.width, imageWidth)
      height == roundPercentage(boundingBox.height, imageHeight)
      safeLeft == Max(0, Min(left, imageWidth - 1))
      safeTop == Max(0, Min(top, imageHeight - 1))
      safeWidth == Max(1, Min(width, imageWidth))
      safeHeight == Max(1, Min(height, imageHeight))
  IN [present |-> TRUE, left |-> safeLeft, top |-> safeTop,
      width |-> safeWidth, height |-> safeHeight]

\* the argument of imageProcessor.extract
extractRegion(boundingBox, imageWidth, imageHeight) ==
  LET left == roundPercentage(boundingBox.x, imageWidth)
      top == roundPercentage(boundingBox.y, imageHeight)
      width == roundPercentage(boundingBox.width, imageWidth)
      height == roundPercentage(boundingBox.height, imageHeight)
      safeLeft == Max(0, Min(left, imageWidth - 1))
      safeTop == Max(0, Min(top, imageHeight - 1))
      safeWidth == Max(1, Min(width, imageWidth - safeLeft))
      safeHeight == Max(1, Min(height, imageHeight - safeTop))
  IN [present |-> TRUE, left |-> safeLeft, top |-> safeTop,
      width |-> safeWidth, height |-> safeHeight]

PixelValues == {0, 128, 255}

\* the raw greyscale buffer: one byte for each sample of the grid
ProcessedBuffers ==
  { [i \in 1..(GridSize * GridSize) |->
       IF i % 3 = 1 THEN a ELSE IF i % 3 = 2 THEN b ELSE c] :
      a \in PixelValues, b \in PixelValues, c \in PixelValues }

\* the first loop: sum += processed[i]
sumOf(processed) ==
  LET sum[i \in 0..Len(processed)] ==
        IF i = 0 THEN 0 ELSE sum[i - 1] + processed[i]
  IN sum[Len(processed)]

\* a sample equal to the average counts as above it
hashOfAtLeastAverage(processed) ==
  LET sum == sumOf(processed) IN
  [i \in 1..Len(processed) |->
     IF processed[i] * Len(processed) >= sum THEN "1" ELSE "0"]

\* the second loop: processed[i] > avg ? '1' : '0', with avg = sum / length
hashOf(processed) ==
  LET sum == sumOf(processed) IN
  [i \in 1..Len(processed) |->
     IF processed[i] * Len(processed) > sum THEN "1" ELSE "0"]

IdleHash ==
  [pc |-> "idle", boundingBox |-> NoBoundingBox, width |-> 0, height |-> 0,
   imageWidth |-> 0, imageHeight |-> 0, extract |-> NoExtract,
   processed |-> <<>>, hash |-> <<>>]

GeneratePerceptualHash ==
  /\ ph.pc = "idle"
  /\ \E boundingBox \in BoundingBoxes :
       ph' = [ph EXCEPT !.pc = "fetch", !.boundingBox = boundingBox]
  /\ UNCHANGED <<db, call, det, ana, mrg, ham, wx>>

\* the catch block: 'Failed to generate perceptual hash'
HashError(h) == [h EXCEPT !.pc = "thrown"]

\* fetch(imageUrl) and response.arrayBuffer()
HashFetch ==
  /\ ph.pc = "fetch"
  /\ \/ ph' = [ph EXCEPT !.pc = "metadata"]
     \/ ph' = HashError(ph)
  /\ UNCHANGED <<db, call, det, ana, mrg, ham, wx>>

\* sharp(buffer).metadata(), then the crop when a bounding box was given
HashMetadata ==
  /\ ph.pc = "metadata"
  /\ \/ \E width \in DeclaredDimensions, height \in DeclaredDimensions :
          LET imageWidth == orOne(width)
              imageHeight == orOne(height)
          IN ph' = [ph EXCEPT
                 !.pc = "process", !.width = width, !.height = height,
                 !.imageWidth = imageWidth, !.imageHeight = imageHeight,
                 !.extract =
                    IF ph.boundingBox.present
                    THEN extractRegion(ph.boundingBox, imageWidth, imageHeight)
                    ELSE NoExtract]
     \/ ph' = HashError(ph)
  /\ UNCHANGED <<db, call, det, ana, mrg, ham, wx>>

\* extract, greyscale, resize, raw, toBuffer, then the two loops; whether
\* sharp accepts the image is not decided by this code
HashProcess ==
  /\ ph.pc = "process"
  /\ \/ \E processed \in ProcessedBuffers :
          ph' = [ph EXCEPT !.pc = "returned", !.processed = processed,
                           !.hash = hashOf(processed)]
     \/ ph' = HashError(ph)
  /\ UNCHANGED <<db, call, det, ana, mrg, ham, wx>>

(***************************************************************************)
(* getCurrentWeather: calls of one process against weatherCache.  Time is  *)
(* Date.now() in milliseconds and advances in steps of half an hour.       *)
(***************************************************************************)
MaxTicks == 4

TickMs == 30 * 60 * 1000

CACHE_DURATION == 1 * 60 * 60 * 1000

Callers == {"w1", "w2"}

Locations == {"New York", "Paris"}

\* the weather data built from a response, named by its temperature
WeatherData == {65, 72}

NoWeatherData == 0

CacheEntry(data, timestamp) ==
  [present |-> TRUE, data |-> data, timestamp |-> timestamp]

\* weatherCache.get(location) is undefined
NoCacheEntry == [present |-> FALSE, data |-> NoWeatherData, timestamp |-> 0]

\* an entry exactly one hour old is still served
freshInclusive(cached, now) ==
  cached.present /\ now - cached.timestamp <= CACHE_DURATION

\* cached && Date.now() - cached.timestamp < CACHE_DURATION
fresh(cached, now) ==
  cached.present /\ now - cached.timestamp < CACHE_DURATION

\* stale and calledApi are history: whether the call found an expired entry
\* and whether it called the weather API
IdleWeatherCall ==
  [pc |-> "idle", location |-> "", result |-> NoWeatherData,
   stale |-> FALSE, calledApi |-> FALSE]

IdleWeather ==
  [started |-> FALSE, apiKey |-> FALSE, now |-> 0,
   weatherCache |-> [location \in Locations |-> NoCacheEntry],
   calls |-> [w \in Callers |-> IdleWeatherCall]]

\* the process starts with OPENWEATHER_API_KEY set or not
WeatherStart ==
  /\ ~wx.started
  /\ \E apiKey \in BOOLEAN :
       wx' = [wx EXCEPT !.started = TRUE, !.apiKey = apiKey]
  /\ UNCHANGED <<db, call, det, ana, mrg, ham, ph>>

WeatherTick ==
  /\ wx.started
  /\ wx.now < MaxTicks * TickMs
  /\ wx' = [wx EXCEPT !.now = @ + TickMs]
  /\ UNCHANGED <<db, call, det, ana, mrg, ham, ph>>

\* the call up to its first await: the key check, the cache check, and the
\* request sent
GetCurrentWeather(w) ==
  /\ wx.started
  /\ wx.calls[w].pc # "fetching"
  /\ \E location \in Locations :
       LET cached == wx.weatherCache[location]
           called == [IdleWeatherCall EXCEPT !.location = location]
       IN wx' = [wx EXCEPT !.calls[w] =
            IF ~wx.apiKey THEN
              [called EXCEPT !.pc = "thrown"]
            ELSE IF fresh(cached, wx.now) THEN
              [called EXCEPT !.pc = "returned", !.result = cached.data]
            ELSE
              [called EXCEPT !.pc = "fetching", !.calledApi = TRUE,
                             !.stale = cached.present]]
  /\ UNCHANGED <<db, call, det, ana, mrg, ham, ph>>

\* the response is ok and parsed: weatherCache.set, return weatherData
WeatherFetchSucceeds(w) ==
  /\ wx.calls[w].pc = "fetching"
  /\ \E weatherData \in WeatherData :
       wx' = [wx EXCEPT
         !.weatherCache[wx.calls[w].location] = CacheEntry(weatherData, wx.now),
         !.calls[w] = [@ EXCEPT !.pc = "returned", !.result = weatherData]]
  /\ UNCHANGED <<db, call, det, ana, mrg, ham, ph>>

\* fetch rejects, the response is not ok, or its body is not as expected:
\* 'Failed to fetch weather data'
WeatherFetchFails(w) ==
  /\ wx.calls[w].pc = "fetching"
  /\ wx' = [wx EXCEPT !.calls[w] = [@ EXCEPT !.pc = "thrown"]]
  /\ UNCHANGED <<db, call, det, ana, mrg, ham, ph>>

Init ==
  /\ ham = IdleHamming
  /\ ph = IdleHash
  /\ wx = IdleWeather
  /\ db = <<>>
  /\ call = [c \in Calls |-> IdleCall]
  /\ det = IdleDetect
  /\ ana = IdleAnalysis
  /\ mrg = IdleMerge

Next ==
  \E c \in Calls :
    \/ BeginCall(c)
    \/ GenerateHash(c)
    \/ ExactMatchLookup(c)
    \/ MergeFetch(c)
    \/ MergeAnalyze(c)
    \/ MergeUpdate(c)
    \/ SimilarItemsQuery(c)
    \/ Analyze(c)
    \/ Insert(c)

Spec == Init /\ [][Next]_vars

NextDetect ==
  \/ DetectClothingItems
  \/ AttemptFetchFails
  \/ AttemptClassifierFails
  \/ AttemptParseFails
  \/ AttemptItemsMissing
  \/ AttemptReturns
  \/ Retry

SpecDetect == Init /\ [][NextDetect]_vars

NextAnalyze ==
  \/ AnalyzeClothingImage
  \/ AnalysisFetchFails
  \/ AnalysisClassifierFails
  \/ AnalysisParseFails
  \/ AnalysisReturns

SpecAnalyze == Init /\ [][NextAnalyze]_vars

NextMerge ==
  \/ MergeItemFetch
  \/ MergeItemUpdate

SpecMerge == Init /\ [][NextMerge]_vars

NextHamming == hammingDistance

SpecHamming == Init /\ [][NextHamming]_vars

NextHash ==
  \/ GeneratePerceptualHash
  \/ HashFetch
  \/ HashMetadata
  \/ HashProcess

SpecHash == Init /\ [][NextHash]_vars

NextWeather ==
  \/ WeatherStart
  \/ WeatherTick
  \/ \E w \in Callers :
       \/ GetCurrentWeather(w)
       \/ WeatherFetchSucceeds(w)
       \/ WeatherFetchFails(w)

SpecWeather == Init /\ [][NextWeather]_vars

(***************************************************************************)
(* Properties of processClothingItems                                      *)
(***************************************************************************)
FailureOutcome == [id |-> EmptyId, merged |-> FALSE]

HasDuplicates(s) == Cardinality(Range(s)) # Len(s)

\* C1: one candidate's exception never fails the batch: every candidate whose
\* resolution raised has the outcome {id: '', merged: false}, the loop goes on
\* with the candidate after it, and the call returns only when every
\* candidate of the batch has an outcome.
C1_FailureIsolated ==
  \A c \in Calls :
    /\ \A j \in call[c].raised :
         /\ j <= Len(call[c].results)
         /\ call[c].results[j] = FailureOutcome
    /\ call[c].pc \notin {"idle", "done"} => call[c].i = Len(call[c].results) + 1
    /\ call[c].pc = "done" => Len(call[c].results) = Len(call[c].items)

\* a returned batch whose first candidate raised and whose second was stored
C1_Witness ==
  \E c \in Calls :
    /\ call[c].pc = "done"
    /\ Len(call[c].items) = 2
    /\ 1 \in call[c].raised
    /\ call[c].results[2].id # EmptyId

\* C2: a call on n candidates returns n outcomes, and outcome k is the
\* outcome of candidate k: it was pushed while resolving candidate k, and a
\* non-empty id names a row of the caller with candidate k's signature.
C2_OutcomePerCandidate ==
  \A c \in Calls :
    call[c].pc = "done" =>
      /\ Len(call[c].results) = Len(call[c].items)
      /\ call[c].resolved = call[c].items
      /\ \A k \in 1..Len(call[c].results) :
           LET id == call[c].results[k].id IN
           id # EmptyId =>
             /\ id \in 1..Len(db)
             /\ db[id].user_id = call[c].userId
             /\ db[id].perceptual_hash =
                  generatePerceptualHash(call[c].items[k].imageUrl,
                                         call[c].items[k].boundingBox)

\* a returned batch with a create, then a merge, for different pictures
C2_Witness ==
  \E c \in Calls :
    /\ call[c].pc = "done"
    /\ Len(call[c].items) = 2
    /\ call[c].items[1].imageUrl = "u3"
    /\ call[c].items[2].imageUrl = "u1"
    /\ call[c].results[1].id # EmptyId
    /\ call[c].results[2].merged

\* C3: the same picture and region ingested for one owner by two calls, one
\* after the other, with no item of that signature before and every external
\* call succeeding: the first outcome is a create, the second is a merge into
\* the same item, and afterwards the owner has exactly one item of that
\* signature, with exactly one variant.
C3_ReingestMerges ==
  \A c, d \in Calls :
    ( /\ call[c].pc = "done" /\ call[d].pc = "done"
      /\ call[c].after = {} /\ c \in call[d].after
      /\ call[c].userId = call[d].userId
      /\ Len(call[c].items) = 1 /\ Len(call[d].items) = 1
      /\ ImageContent(call[c].items[1].imageUrl) = ImageContent(call[d].items[1].imageUrl)
      /\ call[c].items[1].boundingBox = call[d].items[1].boundingBox
      /\ ~call[c].fault /\ ~call[d].fault )
    =>
      LET first == call[c].results[1]
          second == call[d].results[1]
          hash == generatePerceptualHash(call[c].items[1].imageUrl,
                                         call[c].items[1].boundingBox)
      IN /\ first.id # EmptyId /\ ~first.merged
         /\ second.merged /\ second.id = first.id
         /\ MatchingRows(db, call[c].userId, hash) = {first.id}
         /\ Len(db[first.id].image_urls.variants) = 1

\* both calls have returned, the second begun after the first returned
C3_Witness ==
  \E c, d \in Calls :
    /\ call[c].pc = "done" /\ call[d].pc = "done"
    /\ call[c].after = {} /\ c \in call[d].after
    /\ call[c].userId = call[d].userId
    /\ call[c].items = call[d].items /\ Len(call[c].items) = 1
    /\ ~call[c].fault /\ ~call[d].fault
    /\ call[d].results[1].merged

\* C4: no persisted item lists a URL twice in its variants.
C4_NoDuplicateVariants ==
  \A id \in 1..Len(db) : ~HasDuplicates(db[id].image_urls.variants)

\* the merged outcomes of the behaviour so far
MergedOutcomes ==
  { <<c, k>> \in Calls \X (1..MaxCandidates) :
      k <= Len(call[c].results) /\ call[c].results[k].merged }

Contributed(m, row) ==
  LET c == m[1]
      k == m[2]
  IN /\ call[c].items[k].imageUrl \in Range(row.image_urls.variants)
     /\ Range(call[c].analysed[k].vibe_tags) \subseteq Range(row.ai_metadata.vibe_tags)
     /\ Range(call[c].analysed[k].secondary_colors)
           \subseteq Range(row.ai_metadata.secondary_colors)

\* C5: no lost update: when two merges into the same item have both completed
\* with merged=true, the persisted item holds the image URL and the
\* set-valued metadata of both.
C5_NoLostUpdate ==
  \A m, n \in MergedOutcomes :
    ( m # n /\ call[m[1]].results[m[2]].id = call[n[1]].results[n[2]].id )
    => LET row == db[call[m[1]].results[m[2]].id]
       IN Contributed(m, row) /\ Contributed(n, row)

(***************************************************************************)
(* Properties of detectClothingItems                                       *)
(***************************************************************************)
\* a rate-limit error: it carries a rate-limit indicator, and no
\* authentication indicator (that would make it an authentication failure)
RateLimitFailure(f) == f.rateIndicator /\ ~f.authIndicator

\* C6: a call makes at most 4 attempts; when the first 4 attempts all fail
\* with rate-limit errors the call has failed with the rate-limit-exceeded
\* error after the 4th attempt, and there is no 5th.
C6_AtMostFourAttempts ==
  /\ det.attempts <= 4
  /\ Len(det.log) <= 4
  /\ ( Len(det.log) >= 4 /\ \A k \in 1..4 : RateLimitFailure(det.log[k]) )
     => /\ det.pc = "thrown"
        /\ det.thrown.kind = "rate limit exceeded"
        /\ det.attempts = 4

\* four rate-limited attempts, then the failure
C6_Witness ==
  /\ det.pc = "thrown"
  /\ Len(det.log) = 4
  /\ \A k \in 1..4 : RateLimitFailure(det.log[k])

\* C7: a backoff wait follows failed attempt k (0-based) exactly when that
\* attempt was rate-limited and k < 3, and it lasts 1000 * 2^k ms; three
\* rate-limited attempts and a success give the waits 1s, 2s, 4s and a
\* successful return; nothing waits after the 4th attempt or after a failure
\* that is not rate-limited.
C7_BackoffSchedule ==
  /\ Len(det.waits) <= Len(det.log)
  /\ \A k \in 1..Len(det.waits) : det.waits[k] = 1000 * (2 ^ (k - 1))
  /\ \A k \in 1..Len(det.log) :
       (k <= Len(det.waits)) <=> (det.log[k].rateIndicator /\ k - 1 < 3)
  /\ det.pc = "sleep" => Len(det.waits) = Len(det.log)
  /\ (det.pc = "returned" /\ Len(det.log) = 3) => det.waits = <<1000, 2000, 4000>>

\* three rate-limited attempts, three waits, then the successful return
C7_Witness ==
  /\ det.pc = "returned"
  /\ Len(det.log) = 3
  /\ Len(det.waits) = 3

\* C8: an attempt failing with an error that carries neither a rate-limit
\* nor an authentication indicator ends the call: that error is thrown to
\* the caller, no attempt and no wait follows it.
C8_OtherErrorsSurfaceAtOnce ==
  \A k \in 1..Len(det.log) :
    ( ~det.log[k].rateIndicator /\ ~det.log[k].authIndicator )
    => /\ k = Len(det.log)
       /\ det.pc = "thrown"
       /\ det.thrown.original = det.lastError
       /\ det.attempts = k
       /\ Len(det.waits) = k - 1

\* such an error on the second attempt, after one retry
C8_Witness ==
  /\ det.pc = "thrown"
  /\ Len(det.log) = 2
  /\ ~det.log[2].rateIndicator /\ ~det.log[2].authIndicator
  /\ det.thrown.kind = "failed to detect"

\* C9: an attempt failing with an error that carries an authentication
\* indicator, whatever else it carries, ends the call with the
\* authentication error: no attempt and no wait follows it.
C9_AuthNeverRetried ==
  \A k \in 1..Len(det.log) :
    det.log[k].authIndicator
    => /\ k = Len(det.log)
       /\ det.pc = "thrown"
       /\ det.thrown.kind = "authentication failed"
       /\ Len(det.waits) = k - 1

\* C10: an attempt whose response text does not parse as JSON, whatever the
\* text, ends the call with the parse error: no attempt and no wait follows.
C10_ParseFailureNeverRetried ==
  \A k \in 1..Len(det.log) :
    det.log[k].origin = "parse"
    => /\ k = Len(det.log)
       /\ det.pc = "thrown"
       /\ det.thrown.original.origin = "parse"
       /\ Len(det.waits) = k - 1

\* C11: when the call fails after its fourth attempt was rate limited, the
\* error thrown to the caller carries the number of attempts made and the
\* message of the last rate-limit error.
C11_ExhaustedErrorEmbedsAttempts ==
  ( /\ det.pc = "thrown"
    /\ det.attempts = maxRetries + 1
    /\ Len(det.log) = det.attempts
    /\ RateLimitFailure(det.log[Len(det.log)]) )
  => /\ det.thrown.attemptCount = det.attempts
     /\ det.thrown.original = det.lastError

\* an image reference that is not a string, is empty, or is only whitespace
InvalidImageReference(imageUrl) ==
  imageUrl.typeof # "string" \/ imageUrl.text \in {"", "   "}

\* C13: with the API key configured, a call given an invalid image reference
\* has thrown the invalid-input error and has begun no attempt, fetched no
\* image, sent no classifier request and waited for nothing.
C13_InvalidInputBeforeNetwork ==
  (det.pc # "idle" /\ det.keyConfigured /\ InvalidImageReference(det.imageUrl))
  => /\ det.pc = "thrown"
     /\ det.thrown.kind = "invalid image URL"
     /\ det.attempts = 0
     /\ det.fetches = 0
     /\ det.requests = 0
     /\ det.waits = <<>>

\* a whitespace-only reference was refused
C13_Witness ==
  /\ det.pc = "thrown"
  /\ det.keyConfigured
  /\ det.imageUrl = [typeof |-> "string", text |-> "   "]
  /\ det.thrown.kind = "invalid image URL"

\* a raw item the returned sequence is to hold
Retained(it) ==
  /\ it.description # ""
  /\ it.category # ""
  /\ it.bounding_box = "box"
  /\ it.confidence > 5

\* C14: a call that returns, returns the raw items that have a description,
\* a category, a well-formed bounding box and a confidence above 0.5, in
\* their original order, and nothing else (possibly nothing at all).
C14_FilterExact ==
  det.pc = "returned" => det.result = SelectSeq(det.raw, Retained)

\* C18: when the re-fetch at the start of a merge finds no record, the step
\* writes nothing to the table, appends the failure outcome for that
\* candidate, and the call goes on to its next candidate (or returns when
\* there is none).
C18_MissingItemFailsCandidateOnly ==
  [][\A c \in Calls :
       ( /\ call[c].pc = "mergeFetch"
         /\ call'[c] # call[c]
         /\ call'[c].pc # "mergeAnalyze" )
       => /\ db' = db
          /\ call'[c].results = Append(call[c].results, FailureOutcome)
          /\ call'[c].i = call[c].i + 1
          /\ call'[c].pc = IF call[c].i < Len(call[c].items) THEN "hash" ELSE "done"
    ]_vars

\* the first candidate of a batch of two failed at the re-fetch and the
\* second was resolved
C18_Witness ==
  \E c \in Calls :
    /\ call[c].pc = "done"
    /\ Len(call[c].items) = 2
    /\ <<1, "mergeFetch">> \in call[c].mergeFailed
    /\ call[c].results[1] = FailureOutcome
    /\ call[c].results[2].id # EmptyId

\* C19: when the exact-match query runs in a call that has met no failure
\* of an external call, that query included, and at least one item of the
\* owner has the candidate's signature, the candidate takes the merge path.
C19_ExistingSignatureMerges ==
  [][\A c \in Calls :
       ( /\ call[c].pc = "lookup"
         /\ call'[c].pc # "lookup"
         /\ ~call'[c].fault
         /\ MatchingRows(db, call[c].userId, call[c].perceptualHash) # {} )
       => call'[c].pc = "mergeFetch"
    ]_vars

\* C20: when the exact-match query returns a storage error (the first
\* failure of an external call the call meets), the step appends the failure
\* outcome for that candidate and the candidate goes no further: nothing is
\* inserted for it.
C20_LookupErrorSurfaced ==
  [][\A c \in Calls :
       ( /\ call[c].pc = "lookup"
         /\ ~call[c].fault
         /\ call'[c].fault )
       => /\ call'[c].results = Append(call[c].results, FailureOutcome)
          /\ call'[c].pc \in {"hash", "done"}
    ]_vars

\* the signature of the k-th candidate of a batch
SignatureOf(items, k) ==
  generatePerceptualHash(items[k].imageUrl, items[k].boundingBox)

\* C27: a call works on candidate i only when the outcomes of candidates
\* 1..i-1 are recorded; and a call that ran alone on an empty table and met
\* no failure has created an item for the first candidate of each signature,
\* merged every later candidate of that signature into that item, and
\* inserted one item for each signature.
C27_BatchResolvedInOrder ==
  \A c \in Calls :
    /\ call[c].pc \notin {"idle", "done"} => Len(call[c].results) = call[c].i - 1
    /\ ( /\ call[c].pc = "done"
         /\ ~call[c].fault
         /\ \A d \in Calls \ {c} : call[d].pc = "idle" )
       => LET items == call[c].items
              results == call[c].results
              First(k) == \A j \in 1..(k - 1) :
                            SignatureOf(items, j) # SignatureOf(items, k)
          IN /\ Len(results) = Len(items)
             /\ \A k \in 1..Len(items) :
                  IF First(k)
                  THEN ~results[k].merged /\ results[k].id # EmptyId
                  ELSE \E j \in 1..(k - 1) :
                         /\ First(j)
                         /\ SignatureOf(items, j) = SignatureOf(items, k)
                         /\ results[k].merged
                         /\ results[k].id = results[j].id
             /\ Len(db) = Cardinality({ SignatureOf(items, k) : k \in 1..Len(items) })

\* a batch of two uploads of the same picture, resolved by a call that ran
\* alone: one item, the second candidate merged into it
C27_Witness ==
  \E c \in Calls :
    /\ call[c].pc = "done"
    /\ ~call[c].fault
    /\ \A d \in Calls \ {c} : call[d].pc = "idle"
    /\ Len(call[c].items) = 2
    /\ SignatureOf(call[c].items, 1) = SignatureOf(call[c].items, 2)
    /\ ~call[c].results[1].merged
    /\ call[c].results[2].merged
    /\ call[c].results[2].id = call[c].results[1].id
    /\ Len(db) = 1

\* the step of call c ends a merge successfully
MergeSucceeds(c) ==
  /\ call[c].pc = "mergeUpdate"
  /\ Len(call'[c].results) = Len(call[c].results) + 1
  /\ call'[c].results[Len(call'[c].results)].merged

\* C28: a step of mergeItem that does not end the merge successfully (the
\* re-fetch, the analysis, or an update that fails) leaves the table as it
\* is.
C28_FailedMergeWritesNothing ==
  [][\A c \in Calls :
       ( /\ call[c].pc \in {"mergeFetch", "mergeAnalyze", "mergeUpdate"}
         /\ call'[c] # call[c]
         /\ ~MergeSucceeds(c) )
       => db' = db
    ]_vars

\* a merge whose update failed: the one item of the table is as it was
\* created
C28_Witness ==
  \E c \in Calls :
    /\ call[c].pc = "done"
    /\ <<1, "mergeUpdate">> \in call[c].mergeFailed
    /\ call[c].results[1] = FailureOutcome
    /\ Len(db) = 1
    /\ db[1].image_urls.variants = <<>>
    /\ db[1].user_id = call[c].userId
    /\ db[1].perceptual_hash = SignatureOf(call[c].items, 1)

\* C29: every item a step inserts or changes belongs to the owner the
\* stepping call was made for, no item changes owner, and the item a call
\* has matched belongs to that call's owner.
C29_OwnerIsolation ==
  [][/\ \A k \in 1..Len(db') :
          (k > Len(db) \/ db'[k] # db[k])
          => \E c \in Calls :
               /\ call'[c] # call[c]
               /\ db'[k].user_id = call[c].userId
               /\ k <= Len(db) => db[k].user_id = call[c].userId
     /\ \A c \in Calls :
          call'[c].exactMatch # EmptyId
          => db'[call'[c].exactMatch].user_id = call'[c].userId
    ]_vars

\* two owners ingested the same picture: each has an item of their own
\* and neither was merged into
C29_Witness ==
  /\ Len(db) = 2
  /\ db[1].perceptual_hash = db[2].perceptual_hash
  /\ db[1].user_id # db[2].user_id
  /\ db[1].image_urls.variants = <<>> /\ db[2].image_urls.variants = <<>>
  /\ \A c \in Calls :
       /\ call[c].pc = "done"
       /\ ~call[c].fault
       /\ Len(call[c].results) = 1
       /\ ~call[c].results[1].merged
  /\ call["c1"].after = {} /\ call["c2"].after = {"c1"}

\* C30: a step that ends a merge successfully inserts and deletes nothing,
\* leaves every other item as it is, and leaves the owner, the primary image
\* and the signature of the merged item as they are (an item's id is its
\* position in the table).
C30_MergeFrame ==
  [][\A c \in Calls :
       MergeSucceeds(c)
       => /\ Len(db') = Len(db)
          /\ \A k \in 1..Len(db) :
               /\ db'[k].user_id = db[k].user_id
               /\ db'[k].perceptual_hash = db[k].perceptual_hash
               /\ db'[k].image_urls.primary = db[k].image_urls.primary
               /\ k # call[c].exactMatch => db'[k] = db[k]
    ]_vars

\* an item created from one upload and merged with another upload of the
\* same picture
C30_Witness ==
  \E c \in Calls :
    /\ call[c].pc = "done"
    /\ Len(call[c].results) = 1
    /\ call[c].results[1].merged
    /\ call[c].items[1].imageUrl = "u2"
    /\ db[call[c].results[1].id].image_urls = [primary |-> "u1", variants |-> <<"u2">>]
    /\ db[call[c].results[1].id].user_id = call[c].userId

(***************************************************************************)
(* Properties of analyzeClothingImage                                      *)
(***************************************************************************)
\* C12: an analysis call that throws a rate-limit error to its caller has
\* made four requests, with waits of 1s, 2s and 4s between them.
C12_AnalysisRetriedLikeDetection ==
  (ana.pc = "thrown" /\ RateLimitFailure(Failure(ana.thrown.original)))
  => /\ ana.attempts = maxRetries + 1
     /\ ana.waits = <<1000, 2000, 4000>>

(***************************************************************************)
(* Properties of the merged metadata                                       *)
(***************************************************************************)
\* the new value when it is not empty, the existing value otherwise
NonEmptyWins(new, existing) == IF new = "" THEN existing ELSE new

\* C15: the category, sub_category and primary_color written by a merge are
\* each the newly analysed value when that is not empty, and the existing
\* item's value otherwise.
C15_ScalarsNonEmptyWins ==
  mrg.pc = "merged"
  => /\ mrg.ai_metadata.category
          = NonEmptyWins(mrg.newMetadata.category, mrg.existingMetadata.category)
     /\ mrg.ai_metadata.sub_category
          = NonEmptyWins(mrg.newMetadata.sub_category,
                         mrg.existingMetadata.sub_category)
     /\ mrg.ai_metadata.primary_color
          = NonEmptyWins(mrg.newMetadata.primary_color,
                         mrg.existingMetadata.primary_color)

\* a merge where one scalar is replaced, one kept because the new value is
\* empty, and one empty on both sides
C15_Witness ==
  /\ mrg.pc = "merged"
  /\ mrg.existingMetadata.category = "top" /\ mrg.newMetadata.category = "dress"
  /\ mrg.ai_metadata.category = "dress"
  /\ mrg.existingMetadata.sub_category = "top" /\ mrg.newMetadata.sub_category = ""
  /\ mrg.ai_metadata.sub_category = "top"
  /\ mrg.existingMetadata.primary_color = "" /\ mrg.newMetadata.primary_color = ""
  /\ mrg.ai_metadata.primary_color = ""

\* C16: the estimated_season written by a merge is the newly analysed one
\* when that is not empty, and the existing one otherwise.
C16_SeasonNonEmptyWins ==
  mrg.pc = "merged"
  => mrg.ai_metadata.estimated_season
       = NonEmptyWins(mrg.newMetadata.estimated_season,
                      mrg.existingMetadata.estimated_season)

\* C17: the secondary_colors and vibe_tags written by a merge hold no value
\* twice, and hold exactly the values of the existing item and of the new
\* analysis.
C17_SetsUnionedWithoutDuplicates ==
  mrg.pc = "merged"
  => /\ ~HasDuplicates(mrg.ai_metadata.secondary_colors)
     /\ Range(mrg.ai_metadata.secondary_colors)
          = Range(mrg.existingMetadata.secondary_colors)
              \cup Range(mrg.newMetadata.secondary_colors)
     /\ ~HasDuplicates(mrg.ai_metadata.vibe_tags)
     /\ Range(mrg.ai_metadata.vibe_tags)
          = Range(mrg.existingMetadata.vibe_tags)
              \cup Range(mrg.newMetadata.vibe_tags)

\* both sides hold repeats and share a value
C17_Witness ==
  /\ mrg.pc = "merged"
  /\ mrg.existingMetadata.vibe_tags = <<"a", "a">>
  /\ mrg.newMetadata.vibe_tags = <<"b", "a">>
  /\ mrg.ai_metadata.vibe_tags = <<"a", "b">>
  /\ mrg.ai_metadata.secondary_colors = <<"a", "b">>

(***************************************************************************)
(* Properties of hammingDistance                                           *)
(***************************************************************************)
\* C21: for hashes of equal length the call returns a distance that is the
\* same with the arguments exchanged, is 0 exactly when the hashes are
\* equal, lies between 0 and the length, and is the length exactly when the
\* hashes differ in every position.
C21_HammingDistanceProperties ==
  (ham.pc # "idle" /\ Len(ham.hash1) = Len(ham.hash2))
  => /\ ham.pc = "returned"
     /\ Len(ham.distance) = 1
     /\ LET d == ham.distance[1]
            n == Len(ham.hash1)
        IN /\ ~lengthMismatch(ham.hash2, ham.hash1)
           /\ d = countDifferences(ham.hash2, ham.hash1)
           /\ (d = 0) <=> (ham.hash1 = ham.hash2)
           /\ 0 <= d /\ d <= n
           /\ (d = n) <=> (\A i \in 1..n : ham.hash1[i] # ham.hash2[i])

\* two different hashes that agree in one position
C21_Witness ==
  /\ ham.pc = "returned"
  /\ ham.hash1 = <<"0", "1", "1">>
  /\ ham.hash2 = <<"1", "0", "1">>
  /\ ham.distance = <<2>>

\* C22: for hashes of different lengths the call throws and returns no
\* distance.
C22_LengthMismatchThrows ==
  (ham.pc # "idle" /\ Len(ham.hash1) # Len(ham.hash2))
  => ham.pc = "thrown" /\ ham.distance = <<>>

\* a shorter first hash
C22_Witness ==
  /\ ham.pc = "thrown"
  /\ Len(ham.hash1) = 2
  /\ Len(ham.hash2) = 3

(***************************************************************************)
(* Properties of generatePerceptualHash                                    *)
(***************************************************************************)
\* C23: for an image at least one pixel wide and high and any bounding box,
\* the region handed to extract starts inside the image, is at least 1x1
\* and ends inside the image.
C23_CropInsideImage ==
  (ph.extract.present /\ ph.width >= 1 /\ ph.height >= 1)
  => /\ 0 <= ph.extract.left /\ ph.extract.left <= ph.width - 1
     /\ 0 <= ph.extract.top /\ ph.extract.top <= ph.height - 1
     /\ 1 <= ph.extract.width /\ ph.extract.width <= ph.width - ph.extract.left
     /\ 1 <= ph.extract.height /\ ph.extract.height <= ph.height - ph.extract.top

\* the region {x: -10, y: 120, width: 150, height: 50} of a 100x100 image,
\* whose hash was returned
C23_Witness ==
  /\ ph.pc = "returned"
  /\ ph.width = 100 /\ ph.height = 100
  /\ ph.boundingBox = BoundingBox(-10, 120, 150, 50)
  /\ ph.extract = [present |-> TRUE, left |-> 0, top |-> 99,
                   width |-> 100, height |-> 1]

\* C24: no hash is returned for an image whose declared width or height
\* is 0.
C24_ZeroDimensionFails ==
  ph.pc = "returned" => (ph.width # 0 /\ ph.height # 0)

OneHour == 60 * 60 * 1000

\* caller w makes a call in this step
CallMade(w) ==
  /\ wx.calls[w].pc # "fetching"
  /\ wx'.calls[w] # wx.calls[w]

\* caller w's request ends in this step
FetchEnded(w) ==
  /\ wx.calls[w].pc = "fetching"
  /\ wx'.calls[w].pc # "fetching"

====
